---- MODULE Spec2Model ----
(***************************************************************************)
(* Model of src/src/eikonal.py: the eikonal pair reducer (_apply_update),  *)
(* the single-step solver (eikonal_single_step), the fixed-point driver    *)
(* (solve_eikonal) and the shape pipeline of gradient_from_eikonal.        *)
(*                                                                         *)
(* Floating point values are modelled in fixed point: a value v is the     *)
(* integer v*SCALE, a squared value is in units of 1/(SCALE*SCALE).  A     *)
(* step length f is carried as its exact square m (f = sqrt(m), m the      *)
(* number of non-zero coordinates of the lattice offset), so that every    *)
(* comparison against f and every use of f**2 is exact.                    *)
(***************************************************************************)
EXTENDS Integers, Sequences, FiniteSets, TLC

SCALE == 100

MaxSteps == 3

MaxLabel == 2

MaxPairs == 3

\* float("inf") (initial error; also a possible eps)
Inf == -1

----------------------------------------------------------------------------
(* Arithmetic helpers *)

Max2(a, b) == IF a >= b THEN a ELSE b

Min2(a, b) == IF a <= b THEN a ELSE b

\* bisection for the integer square root: x = <<n, lo, hi>>, lo <= sqrt(n) <= hi
SqrtSearch[x \in Nat \X Nat \X Nat] ==
    IF x[2] >= x[3] THEN x[2]
    ELSE LET mid == (x[2] + x[3] + 1) \div 2
         IN  IF mid * mid <= x[1] THEN SqrtSearch[<<x[1], mid, x[3]>>]
                                  ELSE SqrtSearch[<<x[1], x[2], mid - 1>>]

\* torch.sqrt / torch.pow(., 1/2) on a non-negative value, rounded down
\* (46340 is the largest root of a 32-bit value)
ISqrt(n) == SqrtSearch[<<n, 0, 46340>>]

\* the sum of the first x[2] elements of the sequence x[1]
SumPrefix[x \in Seq(Int) \X Nat] ==
    IF x[2] = 0 THEN 0 ELSE SumPrefix[<<x[1], x[2] - 1>>] + x[1][x[2]]

SumSeq(s) == SumPrefix[<<s, Len(s)>>]

----------------------------------------------------------------------------
(* Grids and the neighbourhood sampler *)

MaxOf(s) == CHOOSE m \in {s[i] : i \in 1..Len(s)} : \A i \in 1..Len(s) : s[i] <= m

\* the pixels of a grid of spatial shp shp, 0-based coordinates
Pixels(shp) ==
    { p \in [1..Len(shp) -> 0..(MaxOf(shp) - 1)] :
        \A i \in 1..Len(shp) : p[i] < shp[i] }

\* K = 3^d neighbours
NComponents(d) == 3 ^ d

\* the lattice offset of raster index k: base-3 digits minus 1, first axis fastest
Offset(k, d) == [i \in 1..d |-> ((k \div (3 ^ (i - 1))) % 3) - 1]

InGrid(q, shp) == \A i \in 1..Len(shp) : q[i] >= 0 /\ q[i] < shp[i]

Clamp(q, shp) == [i \in 1..Len(shp) |-> Max2(0, Min2(shp[i] - 1, q[i]))]

\* the neighbour stack of field F: for every pixel the values at its 3^d offsets
binary_convolution(F, shp, padding_mode) ==
    LET d == Len(shp)
    IN  [p \in Pixels(shp) |->
          [k \in 0..(NComponents(d) - 1) |->
             LET off == Offset(k, d)
                 q   == [i \in 1..d |-> p[i] + off[i]]
             IN  IF padding_mode = "replicate" THEN F[Clamp(q, shp)]
                 ELSE IF InGrid(q, shp) THEN F[q] ELSE 0]]

----------------------------------------------------------------------------
(* Pair Reducer *)

\* (x < f) for a fixed-point difference x and f = sqrt(m)
LessThanF(x, m) == x < 0 \/ x * x < m * SCALE * SCALE

\* the selection mask: ((minimum_paired - minimum_paired[-1]) < f)
Kept(v, last, m) == LessThanF(v - last, m)

\* line 30: torch.sort(minimum_paired, dim=0)
Sorted(minimum_paired) == SortSeq(minimum_paired, LAMBDA x, y : x < y)

\* line 32: a = minimum_paired * ((minimum_paired - minimum_paired[-1]) < f)
MaskedA(minimum_paired, m) ==
    LET sorted == Sorted(minimum_paired)
        last   == sorted[Len(sorted)]
    IN  [i \in 1..Len(sorted) |-> IF Kept(sorted[i], last, m) THEN sorted[i] ELSE 0]

\* minimum_paired: the pair minima at one pixel; m = f**2; d = spatial rank
_apply_update(minimum_paired, m, d) ==
    LET a      == MaskedA(minimum_paired, m)
        sum_a  == SumSeq(a)
        sum_a2 == SumSeq([i \in 1..Len(a) |-> a[i] * a[i]])
        disc   == (sum_a * sum_a) - d * (sum_a2 - m * SCALE * SCALE)
    IN  (sum_a + ISqrt(Max2(disc, 0))) \div d

----------------------------------------------------------------------------
(* Single-Step Solver *)

\* ndim of connected_components is spatial rank + 3
Supported(d) == d + 3 = 5 \/ d + 3 = 6

\* squares of the step lengths 0, 1, sqrt(2), sqrt(3)
factors(d) == IF d = 2 THEN <<0, 1, 2>> ELSE <<0, 1, 2, 3>>

index_list(d) ==
    IF d = 2
    THEN << <<4>>, <<1, 3, 5, 7>>, <<0, 2, 6, 8>> >>
    ELSE << <<13>>,
            <<4, 10, 12, 14, 16, 22>>,
            <<1, 3, 5, 7, 9, 11, 15, 17, 19, 21, 23, 25>>,
            <<0, 2, 6, 8, 18, 20, 24, 26>> >>

\* a pairing that walks both halves of the class forwards
PairsForward(ind) ==
    [i \in 1..(Len(ind) \div 2) |-> <<ind[i], ind[i + (Len(ind) \div 2)]>>]

\* the pairs (ind[i], ind[-(i+1)]) for i in range(len(ind) // 2)
Pairs(ind) ==
    [i \in 1..(Len(ind) \div 2) |-> <<ind[i], ind[Len(ind) - (i - 1)]>>]

\* the stacked pair minima of one direction class at one pixel
MinimumPaired(cc, ind) ==
    LET pairs == Pairs(ind)
    IN  [i \in 1..Len(pairs) |-> Min2(cc[pairs[i][1]], cc[pairs[i][2]])]

\* lines 75-89: phi after the direction classes 2..c (1 for c = 1)
Phi(cc, d, c) ==
    LET phi[n \in 1..Len(index_list(d))] ==
            IF n = 1 THEN SCALE
            ELSE (phi[n - 1] * _apply_update(MinimumPaired(cc, index_list(d)[n]),
                                             factors(d)[n], d)) \div SCALE
    IN  phi[c]

\* cc: the (affinity-masked) neighbour values of one pixel, indexed 0..K-1
eikonal_single_step(cc, d) == ISqrt(Phi(cc, d, Len(index_list(d))) * SCALE)

----------------------------------------------------------------------------
(* Fixed-Point Driver: solve_eikonal *)

VARIABLES op, pc, raised,
          instance_mask, shape, eps, min_steps,
          affinity_mask, semantic_mask, T, T0, t, error,
          Tstep, T0prev, nsteps, nsmooth,
          gshape, gout,
          pr_in, pr_f2, pr_d, pr_a, pr_out

vars == <<op, pc, raised, instance_mask, shape, eps, min_steps,
          affinity_mask, semantic_mask, T, T0, t, error,
          Tstep, T0prev, nsteps, nsmooth, gshape, gout,
          pr_in, pr_f2, pr_d, pr_a, pr_out>>

gradVars == <<gshape, gout>>

pairVars == <<pr_in, pr_f2, pr_d, pr_a, pr_out>>

solveVars == <<instance_mask, shape, eps, min_steps, affinity_mask,
               semantic_mask, T, T0, t, error, Tstep, T0prev, nsteps, nsmooth>>

\* the affinity mask with the out-of-grid neighbours read as background
AffinityMaskZeroPadded(mask, shp) ==
    LET nb == binary_convolution(mask, shp, "zeros")
    IN  [p \in Pixels(shp) |->
          [k \in DOMAIN nb[p] |->
             (IF nb[p][k] # mask[p] THEN 0 ELSE nb[p][k]) > 0]]

\* lines 129-135: neighbours with another label than the centre are removed,
\* then the mask is (value > 0)
AffinityMask(mask, shp) ==
    LET nb == binary_convolution(mask, shp, "replicate")
    IN  [p \in Pixels(shp) |->
          [k \in DOMAIN nb[p] |->
             (IF nb[p][k] # mask[p] THEN 0 ELSE nb[p][k]) > 0]]

SemanticMask(mask, shp) == [p \in Pixels(shp) |-> mask[p] > 0]

\* torch.ones_like(instance_mask)
OnesLike(shp) == [p \in Pixels(shp) |-> SCALE]

\* binary_convolution(F, "replicate") * affinity_mask
ConnectedComponents(F, aff, shp) ==
    LET nb == binary_convolution(F, shp, "replicate")
    IN  [p \in Pixels(shp) |->
          [k \in DOMAIN nb[p] |-> IF aff[p][k] THEN nb[p][k] ELSE 0]]

\* the update left unmasked
ZeroBackgroundSkipped(F, sem, shp) == F

\* T.mul_(semantic_mask)
ZeroBackground(F, sem, shp) == [p \in Pixels(shp) |-> IF sem[p] THEN F[p] ELSE 0]

\* lines 145-149: the single-step update followed by the background zeroing
StepT(F, aff, sem, shp) ==
    LET cc == ConnectedComponents(F, aff, shp)
    IN  ZeroBackground([p \in Pixels(shp) |-> eikonal_single_step(cc[p], Len(shp))],
                       sem, shp)

\* the number of pixels of the first j axes
Stride(shp, j) ==
    LET prod[n \in 0..Len(shp)] == IF n = 0 THEN 1 ELSE prod[n - 1] * shp[n]
    IN  prod[j]

NumPixels(shp) == Stride(shp, Len(shp))

\* the pixel of raster index i (first axis fastest), i in 1..NumPixels(shp)
PixelAt(i, shp) == [j \in 1..Len(shp) |-> ((i - 1) \div Stride(shp, j - 1)) % shp[j]]

\* (A - B).square().mean(), kept as the exact sum over the pixels: the mean is
\* this value divided by the number of pixels
SquaredError(A, B, shp) ==
    SumSeq([i \in 1..NumPixels(shp) |->
              (A[PixelAt(i, shp)] - B[PixelAt(i, shp)])
                  * (A[PixelAt(i, shp)] - B[PixelAt(i, shp)])])

\* binary_convolution(T, "replicate").mul(affinity_mask).mean(2)
Smooth(F, aff, shp) ==
    LET cc == ConnectedComponents(F, aff, shp)
    IN  [p \in Pixels(shp) |->
          SumSeq([k \in 1..NComponents(Len(shp)) |-> cc[p][k - 1]])
              \div NComponents(Len(shp))]

\* line 153: if t < 1
DoSmooth(tt) == tt < 1

\* lines 153-156: the smoothing of the first pass
PassT(Tnew, tt, aff, shp) == IF DoSmooth(tt) THEN Smooth(Tnew, aff, shp) ELSE Tnew

\* the error taken after the smoothing instead of before it
PassErrorAfterSmoothing(Tnew, Told, tt, aff, shp) ==
    SquaredError(PassT(Tnew, tt, aff, shp), Told, shp)

\* line 151: the error of a loop pass, from the T of line 149
PassError(Tnew, Told, tt, aff, shp) == SquaredError(Tnew, Told, shp)

\* error > eps, with error the sum over n pixels and eps a mean
ErrorAbove(err, e, n) == e # Inf /\ (err = Inf \/ err > e * n)

\* the loop test with one pass too many
LoopCondInclusive(err, e, tt, ms, n) == ErrorAbove(err, e, n) /\ tt <= ms

\* line 143: while error > eps and t < min_steps
LoopCond(err, e, tt, ms, n) == ErrorAbove(err, e, n) /\ tt < ms

----------------------------------------------------------------------------
(* Inputs *)

Field(shp, S) == [Pixels(shp) -> S]

Const(shp, v) == [p \in Pixels(shp) |-> v]

CentreOnly(shp) == [p \in Pixels(shp) |-> IF \A i \in 1..Len(shp) : p[i] = 1 THEN 1 ELSE 0]

TwoHalves(shp) == [p \in Pixels(shp) |-> IF p[1] = 0 THEN 1 ELSE MaxLabel]

Interior(shp) ==
    [p \in Pixels(shp) |->
       IF \A i \in 1..Len(shp) : p[i] > 0 /\ p[i] < shp[i] - 1 THEN 1 ELSE 0]

\* the 3D update grows T super-exponentially on a filled block: such inputs
\* are run for at most two passes, which keeps every intermediate product of
\* the fixed-point arithmetic below 2^31
GrowingInputs == { [shape |-> <<2, 2, 2>>, mask |-> Const(<<2, 2, 2>>, 1)],
                   [shape |-> <<2, 2, 2>>, mask |-> TwoHalves(<<2, 2, 2>>)] }

StepsFor(in) == IF in \in GrowingInputs THEN 0..Min2(MaxSteps, 2) ELSE 0..MaxSteps

SolveInputs ==
    { [shape |-> <<2, 2>>, mask |-> f] : f \in Field(<<2, 2>>, 0..MaxLabel) }
    \cup { [shape |-> s, mask |-> Const(s, 1)] :
             s \in {<<5, 5>>, <<3>>, <<1, 1, 1, 2>>} }
    \cup { [shape |-> s, mask |-> Const(s, 0)] :
             s \in {<<5, 5>>, <<2, 2, 2>>, <<3>>} }
    \cup { [shape |-> s, mask |-> CentreOnly(s)] : s \in {<<3, 3>>, <<3, 3, 3>>} }
    \cup { [shape |-> s, mask |-> Interior(s)] : s \in {<<4, 4>>, <<5, 5>>} }
    \cup { [shape |-> s, mask |-> TwoHalves(s)] : s \in {<<3, 3>>} }
    \cup GrowingInputs

EpsValues == {0, (SCALE * SCALE) \div 1000, 2 * SCALE * SCALE, Inf}

\* shapes (B, C, spatial...) of the field given to gradient_from_eikonal
GradientInputs == UNION { [1..n -> 1..2] : n \in 3..6 }

NoField == <<>>

\* stacks of pair minima given to _apply_update on its own
PairValues == {0, SCALE \div 2, SCALE, 2 * SCALE + SCALE \div 2}

PairInputs == UNION { [1..n -> PairValues] : n \in 1..MaxPairs }

Init ==
    /\ pc = "entry"
    /\ raised = "none"
    /\ affinity_mask = NoField /\ semantic_mask = NoField
    /\ T = NoField /\ T0 = NoField /\ Tstep = NoField /\ T0prev = NoField
    /\ t = 0 /\ error = 0 /\ nsteps = 0 /\ nsmooth = 0
    /\ gout = NoField
    /\ pr_a = NoField /\ pr_out = 0
    /\ \/ /\ op = "solve_eikonal"
          /\ \E in \in SolveInputs :
                /\ instance_mask = in.mask /\ shape = in.shape
                /\ min_steps \in StepsFor(in)
          /\ eps \in EpsValues
          /\ gshape = NoField
          /\ pr_in = NoField /\ pr_f2 = 0 /\ pr_d = 0
       \/ /\ op = "gradient_from_eikonal"
          /\ gshape \in GradientInputs
          /\ instance_mask = NoField /\ shape = NoField
          /\ eps = 0 /\ min_steps = 0
          /\ pr_in = NoField /\ pr_f2 = 0 /\ pr_d = 0
       \/ /\ op = "_apply_update"
          /\ pr_in \in PairInputs
          /\ pr_d \in {2, 3}
          /\ pr_f2 \in 1..pr_d
          /\ instance_mask = NoField /\ shape = NoField
          /\ eps = 0 /\ min_steps = 0
          /\ gshape = NoField

NPix == NumPixels(shape)

\* lines 129-141
Initialize ==
    /\ op = "solve_eikonal" /\ pc = "entry"
    /\ affinity_mask' = AffinityMask(instance_mask, shape)
    /\ semantic_mask' = SemanticMask(instance_mask, shape)
    /\ T' = OnesLike(shape)
    /\ T0' = OnesLike(shape)
    /\ t' = 0
    /\ error' = Inf
    /\ pc' = "loop"
    /\ UNCHANGED <<op, raised, instance_mask, shape, eps, min_steps,
                   Tstep, T0prev, nsteps, nsmooth, gradVars, pairVars>>

\* lines 143-151: the loop test, the single-step update, the background
\* zeroing and the error
LoopStep ==
    /\ op = "solve_eikonal" /\ pc = "loop"
    /\ LoopCond(error, eps, t, min_steps, NPix)
    /\ Supported(Len(shape))
    /\ T' = StepT(T, affinity_mask, semantic_mask, shape)
    /\ Tstep' = T'
    /\ error' = PassError(T', T0, t, affinity_mask, shape)
    /\ nsteps' = nsteps + 1
    /\ pc' = "stepped"
    /\ UNCHANGED <<op, raised, instance_mask, shape, eps, min_steps,
                   affinity_mask, semantic_mask, T0, t, T0prev, nsmooth,
                   gradVars, pairVars>>

\* lines 153-159: the smoothing of the first pass, the copy into T0, t += 1
LoopFinish ==
    /\ op = "solve_eikonal" /\ pc = "stepped"
    /\ T' = PassT(T, t, affinity_mask, shape)
    /\ T0prev' = T0
    /\ T0' = T'
    /\ nsmooth' = IF DoSmooth(t) THEN nsmooth + 1 ELSE nsmooth
    /\ t' = t + 1
    /\ pc' = "loop"
    /\ UNCHANGED <<op, raised, instance_mask, shape, eps, min_steps,
                   affinity_mask, semantic_mask, error, Tstep, nsteps,
                   gradVars, pairVars>>

\* lines 145, 70-73: the single step raises on an unsupported rank
LoopRaise ==
    /\ op = "solve_eikonal" /\ pc = "loop"
    /\ LoopCond(error, eps, t, min_steps, NPix)
    /\ ~Supported(Len(shape))
    /\ pc' = "raised"
    /\ raised' = "UnsupportedDimension"
    /\ UNCHANGED <<op, solveVars, gradVars, pairVars>>

\* line 161
Return ==
    /\ op = "solve_eikonal" /\ pc = "loop"
    /\ ~LoopCond(error, eps, t, min_steps, NPix)
    /\ pc' = "done"
    /\ UNCHANGED <<op, raised, solveVars, gradVars, pairVars>>

----------------------------------------------------------------------------
(* Gradient Reconstructor: the shapes of gradient_from_eikonal *)

\* the outcome of an operation on shapes that do not broadcast together
ShapeError == <<-1>>

\* the shape s left-padded with 1s to length n
PadLeft(s, n) == [i \in 1..n |-> IF i <= n - Len(s) THEN 1 ELSE s[i - (n - Len(s))]]

\* the shape of a (op) b under broadcasting
Broadcast(a, b) ==
    IF a = ShapeError \/ b = ShapeError THEN ShapeError
    ELSE LET n  == Max2(Len(a), Len(b))
             pa == PadLeft(a, n)
             pb == PadLeft(b, n)
         IN  IF \A i \in 1..n : pa[i] = pb[i] \/ pa[i] = 1 \/ pb[i] = 1
             THEN [i \in 1..n |-> Max2(pa[i], pb[i])]
             ELSE ShapeError

\* an in-place operation a.op_(b): the result must have the shape of a
BroadcastInPlace(a, b) == IF Broadcast(a, b) = a THEN a ELSE ShapeError

\* binary_convolution on a (B, C, spatial...) field: (B, C, 3^d, spatial...)
StackShape(s) ==
    [i \in 1..(Len(s) + 1) |->
       IF i <= 2 THEN s[i] ELSE IF i = 3 THEN NComponents(Len(s) - 2) ELSE s[i - 1]]

\* x.unsqueeze(3)
Unsqueeze3(s) ==
    IF s = ShapeError THEN ShapeError
    ELSE [i \in 1..(Len(s) + 1) |-> IF i <= 3 THEN s[i] ELSE IF i = 4 THEN 1 ELSE s[i - 1]]

\* torch.concat((x, x), dim=3)
ConcatTwice3(s) ==
    IF s = ShapeError THEN ShapeError ELSE [s EXCEPT ![4] = 2 * s[4]]

\* x.sum(dim=2)
SumDim2(s) ==
    IF s = ShapeError THEN ShapeError
    ELSE [i \in 1..(Len(s) - 1) |-> IF i <= 2 THEN s[i] ELSE s[i + 1]]

\* line 175
SpatialDim(s) == Len(s) - 2

\* line 177
GradientSupported(s) == ~(SpatialDim(s) < 2 \/ SpatialDim(s) > 3)

\* lines 205-209
VectorMagnitudeShape(d) ==
    IF d = 2 THEN <<1, 1, 9, 1, 1, 1>> ELSE <<1, 1, 27, 1, 1, 1, 1>>

\* lines 211-215
VectorDirectionShape(d) ==
    IF d = 2 THEN <<1, 1, 9, 2, 1, 1>> ELSE <<1, 1, 27, 3, 1, 1, 1>>

\* lines 217-227: the difference stack
AffinitiesShape(s) == ConcatTwice3(Unsqueeze3(BroadcastInPlace(StackShape(s), s)))

\* lines 231-237; flip(2) keeps the shape
GradientShape(s) ==
    SumDim2(Broadcast(Broadcast(AffinitiesShape(s), VectorDirectionShape(SpatialDim(s))),
                      VectorMagnitudeShape(SpatialDim(s))))

\* lines 175-180
GradientRaise ==
    /\ op = "gradient_from_eikonal" /\ pc = "entry"
    /\ ~GradientSupported(gshape)
    /\ pc' = "raised"
    /\ raised' = "UnsupportedDimension"
    /\ UNCHANGED <<op, solveVars, gradVars, pairVars>>

\* lines 182-239
GradientFromEikonal ==
    /\ op = "gradient_from_eikonal" /\ pc = "entry"
    /\ GradientSupported(gshape)
    /\ IF GradientShape(gshape) = ShapeError
       THEN pc' = "raised" /\ raised' = "ShapeMismatch" /\ gout' = gout
       ELSE pc' = "done" /\ raised' = raised /\ gout' = GradientShape(gshape)
    /\ UNCHANGED <<op, solveVars, gshape, pairVars>>

----------------------------------------------------------------------------
(* Pair Reducer called on its own *)

\* lines 27-41
ApplyUpdate ==
    /\ op = "_apply_update" /\ pc = "entry"
    /\ pr_a' = MaskedA(pr_in, pr_f2)
    /\ pr_out' = _apply_update(pr_in, pr_f2, pr_d)
    /\ pc' = "done"
    /\ UNCHANGED <<op, raised, solveVars, gradVars, pr_in, pr_f2, pr_d>>

----------------------------------------------------------------------------

Next ==
    \/ ApplyUpdate
    \/ Initialize
    \/ LoopStep
    \/ LoopFinish
    \/ LoopRaise
    \/ Return
    \/ GradientRaise
    \/ GradientFromEikonal

Spec == Init /\ [][Next]_vars

----------------------------------------------------------------------------
(* Properties *)

Solving == op = "solve_eikonal"

\* a call of solve_eikonal on a 2D or 3D mask with a finite tolerance
SolvingValid == Solving /\ Supported(Len(shape)) /\ eps # Inf

Background(p) == instance_mask[p] = 0

AllZeroMask == \A p \in DOMAIN instance_mask : instance_mask[p] = 0

FullGrid5x5 == shape = <<5, 5>> /\ instance_mask = Const(<<5, 5>>, 1)

Centre5x5 == <<2, 2>>

EdgePixels5x5 == { p \in Pixels(<<5, 5>>) : \E i \in 1..2 : p[i] = 0 \/ p[i] = 4 }

\* C1: solve_eikonal never returns after fewer than min_steps completed
\* iterations (min_steps >= 1): the tolerance alone does not end the loop.
\* Stated for 2D and 3D masks and finite eps.
C1_ReturnsOnlyAfterMinSteps ==
    (SolvingValid /\ pc = "done" /\ min_steps >= 1) => t >= min_steps

\* C2: for an all-zero instance mask the returned field is zero at every
\* pixel, for any min_steps (0 included) and any eps.  Stated for 2D and 3D
\* masks and finite eps.
C2_ZeroMaskGivesZeroField ==
    (SolvingValid /\ pc = "done" /\ AllZeroMask) => \A p \in DOMAIN T : T[p] = 0

\* C3: for every input of spatial rank 2 or 3, gradient_from_eikonal completes
\* without error and returns the shape (B, C, d, spatial...).  Stated for
\* fields of one batch entry and one channel (B = C = 1).
C3_GradientShapeForRank2And3 ==
    (/\ op = "gradient_from_eikonal" /\ pc # "entry" /\ GradientSupported(gshape)
     /\ gshape[1] = 1 /\ gshape[2] = 1)
        => /\ pc = "done"
           /\ gout = [i \in 1..(Len(gshape) + 1) |->
                        IF i <= 2 THEN gshape[i]
                        ELSE IF i = 3 THEN SpatialDim(gshape) ELSE gshape[i - 1]]

\* C4: with a spatial rank outside {2,3} each public operation fails with
\* UnsupportedDimension and returns no result, whatever min_steps and eps are.
C4_UnsupportedRankReturnsNoResult ==
    /\ (Solving /\ ~Supported(Len(shape))) => pc # "done"
    /\ (op = "gradient_from_eikonal" /\ ~GradientSupported(gshape)) => pc # "done"

\* C5 (as claimed): from the initialisation of T onwards, T is zero at every
\* pixel whose instance label is zero.  Stated for 2D and 3D masks and finite eps.
C5_ZeroOutsideMaskFromInitialisation ==
    (SolvingValid /\ pc # "entry") => \A p \in DOMAIN T : Background(p) => T[p] = 0

\* C5 (amended): once the first single-step update and its background zeroing
\* have run, T is zero at every pixel whose instance label is zero: after the
\* zeroing, after the first-pass smoothing, at every later pass and on return.
C5_ZeroOutsideMaskAfterFirstStep ==
    (Solving /\ nsteps >= 1) => \A p \in DOMAIN T : Background(p) => T[p] = 0

C5_Witness ==
    /\ Solving /\ pc = "done" /\ t >= 2
    /\ \E p \in DOMAIN T : Background(p)
    /\ \E p \in DOMAIN T : T[p] > 0

\* C6 (as claimed): on the 5x5 grid filled by one instance the returned centre
\* value is strictly greater than the value of every edge pixel.  Stated for
\* calls in which at least two passes have run.
C6_CentreExceedsEveryEdge ==
    (Solving /\ pc = "done" /\ FullGrid5x5 /\ t >= 2)
        => \A p \in EdgePixels5x5 : T[Centre5x5] > T[p]

\* C6 (amended): on the 5x5 grid filled by one instance the returned field is
\* uniform: the centre value equals the value of every edge pixel (and of every
\* other pixel), so it exceeds none of them.
C6_CentreEqualsEveryEdge ==
    (Solving /\ pc = "done" /\ FullGrid5x5)
        => \A p \in DOMAIN T : T[p] = T[Centre5x5]

C6_Witness ==
    Solving /\ pc = "done" /\ FullGrid5x5 /\ t >= 2 /\ T[Centre5x5] > SCALE

Terminal == pc \in {"done", "raised"}

\* how far a call has come: entry, then two positions per loop pass, then the end
Progress ==
    IF pc = "entry" THEN 0
    ELSE IF pc = "loop" THEN 2 * t + 1
    ELSE IF pc = "stepped" THEN 2 * t + 2
    ELSE 2 * min_steps + 3

\* what the code does next in a state that is not terminal
CanStep ==
    \/ op = "_apply_update" /\ pc = "entry"
    \/ op = "gradient_from_eikonal" /\ pc = "entry"
    \/ Solving /\ pc = "entry"
    \/ Solving /\ pc = "stepped"
    \/ Solving /\ pc = "loop" /\ LoopCond(error, eps, t, min_steps, NPix)
    \/ Solving /\ pc = "loop" /\ ~LoopCond(error, eps, t, min_steps, NPix)

\* C7: the driver always terminates: every step it takes moves it forward, it
\* is never stuck before the end, and the end is at most 2 * min_steps + 3
\* positions away; it executes the single-step update at most min_steps times,
\* even when the error never reaches the tolerance; and t grows by exactly one
\* per loop pass, one pass per single-step update.
C7_TerminatesWithinMinSteps ==
    /\ [][Progress' > Progress]_vars
    /\ [](Progress <= 2 * min_steps + 3)
    /\ [](Terminal \/ CanStep)
    /\ [](Solving => (nsteps <= min_steps /\ t <= min_steps))
    /\ [](Solving => nsteps = (IF pc = "stepped" THEN t + 1 ELSE t))
    /\ [][Solving => (t' = t \/ (t' = t + 1 /\ pc = "stepped" /\ pc' = "loop"))]_vars

C7_Witness ==
    /\ Solving /\ pc = "done" /\ min_steps = MaxSteps /\ nsteps = min_steps
    /\ ErrorAbove(error, eps, NPix)

\* C8: a paired minimum that lies f or more below the largest one is discarded:
\* it contributes nothing to S1 and S2.
C8_FarMinimaAreDiscarded ==
    (op = "_apply_update" /\ pc = "done")
        => \A i \in 1..Len(pr_in) :
              ~LessThanF(Sorted(pr_in)[Len(pr_in)] - Sorted(pr_in)[i], pr_f2)
                  => pr_a[i] = 0

\* the class of raster index k in dimension d: its number of non-zero coordinates
NonZeroCoordinates(k, d) == Cardinality({i \in 1..d : Offset(k, d)[i] # 0})

Range(s) == {s[i] : i \in 1..Len(s)}

NonCentreClasses(d) == 2..Len(index_list(d))

AllPairs(d) == UNION { Range(Pairs(index_list(d)[c])) : c \in NonCentreClasses(d) }

\* C9: for d = 2 and d = 3 the non-centre classes partition the K-1 non-centre
\* raster indices, every index of the class with step sqrt(m) has exactly m
\* non-zero coordinates, every pair whose minimum is taken is antipodal, and
\* every non-centre index is in exactly one pair.
C9_ClassesPartitionIntoAntipodalPairs ==
    (Solving /\ Supported(Len(shape))) =>
        LET d == Len(shape)
            K == NComponents(d)
            nonCentre == (0..(K - 1)) \ {(K - 1) \div 2}
        IN  /\ UNION { Range(index_list(d)[c]) : c \in NonCentreClasses(d) } = nonCentre
            /\ SumSeq([c \in 1..Len(index_list(d)) |->
                         IF c = 1 THEN 0 ELSE Len(index_list(d)[c])]) = K - 1
            /\ \A c \in NonCentreClasses(d) : \A k \in Range(index_list(d)[c]) :
                   NonZeroCoordinates(k, d) = factors(d)[c]
            /\ \A pr \in AllPairs(d) :
                   /\ pr[1] + pr[2] = K - 1
                   /\ \A i \in 1..d : Offset(pr[1], d)[i] = -Offset(pr[2], d)[i]
            /\ \A k \in nonCentre :
                   Cardinality({pr \in AllPairs(d) : pr[1] = k \/ pr[2] = k}) = 1

C9_Witness == Solving /\ Len(shape) = 3 /\ nsteps >= 1 /\ pc = "done"

\* C10 (as claimed): after every pass, pass 0 included, the error is the
\* squared difference between the T copied into T0 and the previous T0, and
\* the smoothing has been applied exactly once.
C10_ErrorUsesTheCopiedT ==
    (Solving /\ pc = "loop" /\ t >= 1)
        => /\ error = SquaredError(T0, T0prev, shape)
           /\ nsmooth = 1

\* C10 (amended): the error of a pass is taken after the single-step update
\* and the background zeroing but before the smoothing: on pass 0 it is the
\* squared difference between the unsmoothed T and the previous T0, while the
\* smoothed T is what is copied into T0; on every later pass the T it was
\* taken from is the T copied into T0.  The smoothing is applied exactly once,
\* on pass 0.
C10_ErrorPrecedesSmoothing ==
    (Solving /\ pc = "loop" /\ t >= 1)
        => /\ error = SquaredError(Tstep, T0prev, shape)
           /\ t = 1 => T0 = Smooth(Tstep, affinity_mask, shape)
           /\ t >= 2 => T0 = Tstep
           /\ nsmooth = 1

C10_Witness ==
    /\ Solving /\ pc = "loop" /\ t = 1
    /\ T0 # Tstep
    /\ error # SquaredError(T0, T0prev, shape)

====
